---- MODULE Spec2Model ----
(***************************************************************************)
(* Teardown orchestrator of the A2A multi-agent incident response sample   *)
(* (cleanup.py): main, run_cleanup, the parallel agent-stack tier, the     *)
(* stack deletion task with its status poller, and the bucket task.        *)
(*                                                                         *)
(* Text is modelled as sequences of one-character strings so that strip,   *)
(* lower and substring tests are computed the way Python computes them.    *)
(* The resource backend (the aws CLI behind run_command) is the            *)
(* environment: every call draws its exit status and stdout from a small   *)
(* set of samples.                                                         *)
(***************************************************************************)
EXTENDS Integers, Sequences, FiniteSets, TLC

----------------------------------------------------------------------------
(* Bounds of the model (not program constants).                            *)

\* A stack answers at most MaxBusy status queries with a non-terminal result
\* before it answers with a terminal one, unless it is the slow stack.
MaxBusy == 1

----------------------------------------------------------------------------
(* Program constants.                                                      *)

max_wait_time == 1800
wait_interval == 15

----------------------------------------------------------------------------
(* Text: Python str operations used by the program.                        *)

Whitespace == {" ", "\n", "\t"}

UpperLetters == <<"A","B","C","D","E","F","G","H","I","J","K","L","M",
                  "N","O","P","Q","R","S","T","U","V","W","X","Y","Z">>
LowerLetters == <<"a","b","c","d","e","f","g","h","i","j","k","l","m",
                  "n","o","p","q","r","s","t","u","v","w","x","y","z">>

LowerChar(c) ==
    IF \E i \in 1..26 : UpperLetters[i] = c
    THEN LowerLetters[CHOOSE i \in 1..26 : UpperLetters[i] = c]
    ELSE c

\* str.lower()
Lower(s) == [i \in 1..Len(s) |-> LowerChar(s[i])]

RECURSIVE LStrip(_)
LStrip(s) == IF s # <<>> /\ Head(s) \in Whitespace THEN LStrip(Tail(s)) ELSE s

RECURSIVE RStrip(_)
RStrip(s) ==
    IF s # <<>> /\ s[Len(s)] \in Whitespace
    THEN RStrip(SubSeq(s, 1, Len(s) - 1))
    ELSE s

\* str.strip()
Strip(s) == RStrip(LStrip(s))

\* needle in hay
Contains(hay, needle) ==
    \E i \in 0..(Len(hay) - Len(needle)) :
        SubSeq(hay, i + 1, i + Len(needle)) = needle

\* Literals of the program.
sDELETE == <<"D","E","L","E","T","E">>
sYes == <<"y","e","s">>
sY == <<"y">>
sNo == <<"n","o">>
sDeleteComplete == <<"D","E","L","E","T","E","_","C","O","M","P","L","E","T","E">>
sDeleteFailed == <<"D","E","L","E","T","E","_","F","A","I","L","E","D">>
sDoesNotExist == <<"d","o","e","s"," ","n","o","t"," ","e","x","i","s","t">>
sStackWithId == <<"s","t","a","c","k"," ","w","i","t","h"," ","i","d">>
sValidationError == <<"v","a","l","i","d","a","t","i","o","n","e","r","r","o","r">>
s404 == <<"4","0","4">>
sNotFound == <<"N","o","t"," ","F","o","u","n","d">>
sNoSuchBucket == <<"N","o","S","u","c","h","B","u","c","k","e","t">>
sRemove == <<"r","e","m","o","v","e">>
sTimedOut == <<"C","o","m","m","a","n","d"," ","t","i","m","e","d"," ","o","u","t"," ",
               "a","f","t","e","r"," ","3","0"," ","s","e","c","o","n","d","s">>
sCmdNotFound == <<"C","o","m","m","a","n","d"," ","n","o","t"," ","f","o","u","n","d",
                  ":"," ","a","w","s">>

\* Sample stdout of the aws CLI.
oEmpty == <<>>
oBlank == <<" ","\n">>
oStacks == <<"S","t","a","c","k","s","\n">>
oInProgress == <<"D","E","L","E","T","E","_","I","N","_","P","R","O","G","R","E","S","S","\n">>
oComplete == <<"D","E","L","E","T","E","_","C","O","M","P","L","E","T","E","\n">>
oFailed == <<"D","E","L","E","T","E","_","F","A","I","L","E","D","\n">>
oGone == <<"S","t","a","c","k"," ","w","i","t","h"," ","i","d"," ","x"," ",
           "d","o","e","s"," ","n","o","t"," ","e","x","i","s","t">>
oValidation == <<"V","a","l","i","d","a","t","i","o","n","E","r","r","o","r">>
oDenied == <<"A","c","c","e","s","s","D","e","n","i","e","d">>
oHead404 == <<"4","0","4">>
oHeadNotFound == <<"N","o","t"," ","F","o","u","n","d">>
oNoSuchBucket == <<"N","o","S","u","c","h","B","u","c","k","e","t">>
oRemoveFailed == <<"r","e","m","o","v","e"," ","f","a","i","l","e","d">>
oNotExistUpper == <<"B","u","c","k","e","t"," ","D","o","e","s"," ","N","o","t"," ",
                    "E","x","i","s","t">>

\* Sample lines typed at a prompt.
lEmpty == <<>>
lDelete == <<"D","E","L","E","T","E">>
lDeletePadded == <<" ","D","E","L","E","T","E"," ">>
lDeleteLower == <<"d","e","l","e","t","e">>
lYes == <<"y","e","s">>
lYUpper == <<" ","Y">>
lNo == <<"n","o">>

TypedLines == {lEmpty, lDelete, lDeletePadded, lDeleteLower, lYes, lYUpper, lNo}

----------------------------------------------------------------------------
(* Resources of the teardown plan.                                         *)

AgentStacks == {"host_agent", "web_search_agent", "monitoring_agent"}
Stacks == AgentStacks \cup {"cognito"}
Bucket == "smithy_models_bucket"
Resources == Stacks \cup {Bucket}

\* step_name passed to delete_stack for each stack
StepName(r) ==
    CASE r = "host_agent" -> "Host Agent Stack"
      [] r = "web_search_agent" -> "Web Search Agent Stack"
      [] r = "monitoring_agent" -> "Monitoring Agent Stack"
      [] r = "cognito" -> "Cognito Stack"
      [] OTHER -> "S3 Bucket"

\* variant: the monitoring agent's step comes before the web search agent's
StepAfterSwapped(r) ==
    CASE r = "host_agent" -> "monitoring_agent"
      [] r = "monitoring_agent" -> "web_search_agent"
      [] r = "web_search_agent" -> "cognito"
      [] r = "cognito" -> Bucket
      [] OTHER -> "unlink"

\* the statement of run_cleanup that follows the step of resource r
StepAfter(r) ==
    CASE r = "host_agent" -> "web_search_agent"
      [] r = "web_search_agent" -> "monitoring_agent"
      [] r = "monitoring_agent" -> "cognito"
      [] r = "cognito" -> Bucket
      [] OTHER -> "unlink"

Kinds == {"exists", "delete", "status", "empty"}

----------------------------------------------------------------------------
(* The resource backend behind run_command.                                *)

\* One run of the aws CLI: it exits with a return code and some stdout, or
\* subprocess.run raises TimeoutExpired or FileNotFoundError.
Proc(rc, stdout) == [how |-> "exit", rc |-> rc, stdout |-> stdout]
TimeoutExpired == [how |-> "TimeoutExpired", rc |-> 1, stdout |-> oEmpty]
FileNotFound == [how |-> "FileNotFoundError", rc |-> 1, stdout |-> oEmpty]

\* run_command: (success, output), output being the stripped stdout
run_command(run) ==
    CASE run.how = "exit" -> [ok |-> run.rc = 0, out |-> Strip(run.stdout)]
      [] run.how = "TimeoutExpired" -> [ok |-> FALSE, out |-> sTimedOut]
      [] OTHER -> [ok |-> FALSE, out |-> sCmdNotFound]

DescribeStacksRuns ==
    {Proc(0, oStacks), Proc(255, oEmpty), Proc(255, oBlank), Proc(255, oGone),
     Proc(255, oValidation), Proc(255, oDenied), TimeoutExpired}
DeleteStackRuns == {Proc(0, oEmpty), Proc(255, oEmpty), Proc(255, oDenied)}
StatusRuns ==
    {Proc(0, oComplete), Proc(0, oFailed), Proc(0, oInProgress), Proc(0, oEmpty),
     Proc(255, oGone), Proc(255, oValidation), Proc(255, oEmpty),
     Proc(255, oDenied), Proc(255, oFailed), TimeoutExpired}
HeadBucketRuns ==
    {Proc(0, oEmpty), Proc(255, oHead404), Proc(255, oHeadNotFound),
     Proc(255, oEmpty), Proc(255, oDenied), FileNotFound}
RmRuns == {Proc(0, oEmpty), Proc(1, oRemoveFailed), Proc(1, oEmpty), Proc(1, oDenied)}
RbRuns ==
    {Proc(0, oEmpty), Proc(1, oNoSuchBucket), Proc(1, oGone), Proc(1, oEmpty),
     Proc(1, oDenied), Proc(1, oValidation), Proc(1, oNotExistUpper)}

----------------------------------------------------------------------------
(* Decisions the program takes on a command result.                        *)

\* variant: the markers are looked for in the text as it is
StackAbsentCaseSensitive(output) ==
    \/ Contains(output, sDoesNotExist)
    \/ Contains(output, sStackWithId)
    \/ Contains(output, sValidationError)
    \/ Strip(output) = <<>>

\* delete_stack: the failed existence check means "stack does not exist"
StackAbsent(output) ==
    \/ Contains(Lower(output), sDoesNotExist)
    \/ Contains(Lower(output), sStackWithId)
    \/ Contains(Lower(output), sValidationError)
    \/ Strip(output) = <<>>

\* variant: only the three markers mean that the stack is gone
StackGoneMarkersOnly(output) ==
    \/ Contains(Lower(output), sDoesNotExist)
    \/ Contains(Lower(output), sValidationError)
    \/ Contains(Lower(output), sStackWithId)

\* wait_for_stack_deletion: the failed status query means "stack is gone"
StackGone(output) ==
    \/ Contains(Lower(output), sDoesNotExist)
    \/ Contains(Lower(output), sValidationError)
    \/ Contains(Lower(output), sStackWithId)
    \/ Strip(output) = <<>>

\* variant: a failed status query that is no absence ends the wait
PollDecisionStrict(res) ==
    IF ~res.ok /\ StackGone(res.out) THEN "deleted"
    ELSE IF ~res.ok THEN "failed"
    ELSE IF res.ok /\ res.out # <<>> /\ Strip(res.out) = sDeleteComplete THEN "deleted"
    ELSE IF res.ok /\ res.out # <<>> /\ Strip(res.out) = sDeleteFailed THEN "failed"
    ELSE "checking"

\* variant: only the disappearance of the stack ends the wait with success
PollDecisionGoneOnly(res) ==
    IF ~res.ok /\ StackGone(res.out) THEN "deleted"
    ELSE IF res.ok /\ res.out # <<>> /\ Strip(res.out) = sDeleteFailed THEN "failed"
    ELSE "checking"

\* variant: DELETE_FAILED is one more status to wait on
PollDecisionLenient(res) ==
    IF ~res.ok /\ StackGone(res.out) THEN "deleted"
    ELSE IF res.ok /\ res.out # <<>> /\ Strip(res.out) = sDeleteComplete THEN "deleted"
    ELSE "checking"

\* wait_for_stack_deletion: what one status query decides:
\* "deleted" (return True), "failed" (return False) or "checking" (sleep)
PollDecision(res) ==
    IF ~res.ok /\ StackGone(res.out) THEN "deleted"
    ELSE IF res.ok /\ res.out # <<>> /\ Strip(res.out) = sDeleteComplete THEN "deleted"
    ELSE IF res.ok /\ res.out # <<>> /\ Strip(res.out) = sDeleteFailed THEN "failed"
    ELSE "checking"

\* variant: the loop test lets the deadline itself in
KeepWaitingInclusive(elapsed) == elapsed <= max_wait_time

\* variant: the deadline is twice max_wait_time
KeepWaitingTwice(elapsed) == elapsed < 2 * max_wait_time

\* wait_for_stack_deletion: the condition of the while loop
KeepWaiting(elapsed) == elapsed < max_wait_time

\* empty_s3_bucket: the failed head-bucket means "bucket does not exist"
BucketAbsent(output) == Contains(output, s404) \/ Contains(output, sNotFound)

\* variant: the rb command judged by the absence markers of the stacks
BucketDeletedLikeStack(res) == res.ok \/ StackAbsent(res.out)

\* delete_s3_bucket: the result of the rb command
BucketDeleted(res) ==
    \/ res.ok
    \/ Contains(res.out, sNoSuchBucket)
    \/ Contains(res.out, sDoesNotExist)

\* get_input: the value returned for a typed line; Again when it asks again
Again == <<"\r">>
get_input(line, default, required) ==
    LET value == Strip(line) IN
    IF value # <<>> THEN value
    ELSE IF default # <<>> THEN default
    ELSE IF ~required THEN <<>>
    ELSE Again

\* main: the answer counts as yes
IsYes(answer) == Lower(answer) \in {sYes, sY}

\* variant: the confirmation compared without regard to case
ConfirmedAnyCase(answer) == Lower(answer) = Lower(sDELETE)

\* run_cleanup: the confirmation gate lets the run proceed
Confirmed(answer) == answer = sDELETE

\* variant: any(results.values())
AnyValue(d) == \E k \in DOMAIN d : d[k]

\* all(results.values())
AllValues(d) == \A k \in DOMAIN d : d[k]

\* delete_stack: what the existence check decides: "absent" (return True),
\* "error" (return False) or "present" (go on to delete the stack)
ExistsDecision(res) ==
    IF res.ok THEN "present"
    ELSE IF StackAbsent(res.out) THEN "absent"
    ELSE "error"

\* empty_s3_bucket: what the existence check decides: "absent" (return True),
\* "error" (return False) or "present" (go on to empty the bucket)
HeadDecision(res) ==
    IF res.ok THEN "present"
    ELSE IF BucketAbsent(res.out) THEN "absent"
    ELSE "error"

\* empty_s3_bucket: the value returned after the rm command
Emptied(res) == IF res.ok \/ Contains(res.out, sRemove) THEN TRUE ELSE TRUE

----------------------------------------------------------------------------
VARIABLES
    configFile,     \* .a2a.config on disk: "missing", "empty" or "valid"
    mpc,            \* statement the main thread is at
    exit_code,      \* status of sys.exit; -1 while the process runs
    line,           \* get_input: the line input() has read, NoLine before
    use_parallel,   \* main: use_parallel / run_cleanup: parallel
    confirm,        \* run_cleanup: confirm
    all_success,    \* run_cleanup: all_success
    returned,       \* value returned by run_cleanup: "none", "True", "False"
    tpc,            \* per resource: statement its deletion task is at
    result,         \* per resource: value returned by its deletion task
    elapsed_time,   \* per stack: wait_for_stack_deletion's elapsed_time
    results,        \* delete_agent_stacks_parallel: results (step name -> bool)
    printed,        \* lines run_cleanup and the tier have printed about outcomes
    slow,           \* backend: the stack that may stay non-terminal, or "none"
    touched,        \* history: a backend call was issued for the resource
    gate,           \* history: "none", "passed" or "cancelled"
    ending,         \* history: why the process ends, "none" while it runs
    fate,           \* backend: per resource, the answers it is bound to give
    watch,          \* history: the resource whose task is observed, or "none"
    calls,          \* history: backend calls of the observed task, per kind
    existCheck,     \* history: what the observed task's existence check told
    told,           \* history: what the observed task's status queries told
    waited,         \* history: time the observed task has slept
    heard,          \* history: what the observed bucket task's rm and rb returned
    raised,         \* history: the resources in whose task an exception was raised
    message,        \* classification: the text of a failed query
    verdict,        \* classification: what the two checks made of message
    wpc,            \* tier output: per worker, where it is and whether inside print
    cpc,            \* tier output: where the collecting main thread is
    print_lock,     \* tier output: the thread that holds print_lock, or "free"
    collected,      \* tier output: the workers whose future as_completed has yielded
    memory_id,      \* executor: MEMORY_ID and MCP_REGION are set in the environment
    agent,          \* executor: self._agent, None or the request it was made for
    active_tasks,   \* executor: self._active_tasks (task id -> bool)
    xpc,            \* executor: per execute() call, the await it is suspended at
    request,        \* executor: per execute() call, its request context
    accumulated_text, \* executor: per call, accumulated_text is not empty
    overtaken,      \* history: the execute() calls in progress when cancel() marked their task
    late,           \* history: what an overtaken execute() call has emitted since
    reached         \* history: the execute() calls that called _get_agent, in order

progVars == <<configFile, mpc, exit_code, line, use_parallel, confirm,
              all_success, returned, results, gate, ending, printed>>
classVars == <<message, verdict>>
printVars == <<wpc, cpc, print_lock, collected>>
execVars == <<memory_id, agent, active_tasks, xpc, request, accumulated_text,
              overtaken, late, reached>>
\* what no step of the teardown changes
restVars == <<watch, classVars, printVars, execVars>>
obsVars == <<restVars, calls, existCheck, told, waited, heard, raised>>
vars == <<progVars, tpc, result, elapsed_time, slow, fate, touched, obsVars>>

NoLine == <<"">>

\* no command result yet
Unheard == [ok |-> FALSE, out |-> <<"\r">>]

InitProgram ==
    /\ exit_code = -1
    /\ line = NoLine
    /\ all_success = TRUE
    /\ returned = "none"
    /\ result = [r \in Resources |-> FALSE]
    /\ elapsed_time = [r \in Stacks |-> 0]
    /\ results = <<>>
    /\ printed = {}
    /\ slow = "none"
    /\ touched = [r \in Resources |-> FALSE]
    /\ ending = "none"
    /\ calls = [k \in Kinds |-> 0]
    /\ existCheck = "none"
    /\ told = {}
    /\ waited = 0
    /\ heard = [k \in {"empty", "delete"} |-> Unheard]
    /\ raised = {}

\* no text is being classified
ClassifyAtRest ==
    /\ message = <<>>
    /\ verdict = {}

\* no parallel tier is writing to the console
PrintAtRest ==
    /\ wpc = [w \in AgentStacks |-> [at |-> "queued", inside |-> FALSE]]
    /\ cpc = [at |-> "off", inside |-> FALSE]
    /\ print_lock = "free"
    /\ collected = {}

\* the calls of execute() a MonitoringAgentExecutor is to serve
Calls == {"x1", "x2"}

\* MonitoringAgentExecutor.__init__, no request received yet
ExecutorAtRest ==
    /\ memory_id = TRUE
    /\ agent = {}
    /\ active_tasks = <<>>
    /\ xpc = [x \in Calls |-> "idle"]
    /\ request = [x \in Calls |-> <<>>]
    /\ accumulated_text = [x \in Calls |-> FALSE]
    /\ overtaken = {}
    /\ late = {}
    /\ reached = <<>>

----------------------------------------------------------------------------
(* History kept for the properties: it never influences the program.       *)

Touch(r) == touched' = [touched EXCEPT ![r] = TRUE]

ObserveCall(r, kind) ==
    calls' = IF watch = r THEN [calls EXCEPT ![kind] = @ + 1] ELSE calls

ObserveExists(r, decision) ==
    existCheck' = IF watch = r THEN decision ELSE existCheck

\* what the backend told in answer to a status query
PollTold(res) ==
    IF ~res.ok /\ Strip(res.out) = <<>> THEN "failed_empty"
    ELSE IF ~res.ok /\ \E marker \in {sDoesNotExist, sStackWithId, sValidationError} :
                          Contains(Lower(res.out), marker) THEN "failed_absent"
    ELSE IF ~res.ok THEN "failed_other"
    ELSE IF res.out = sDeleteComplete THEN "DELETE_COMPLETE"
    ELSE IF res.out = sDeleteFailed THEN "DELETE_FAILED"
    ELSE IF res.out = <<>> THEN "no_status"
    ELSE "other_status"

\* The answers of the sample runs, as the program decides on them.
DescribeAnswers == {ExistsDecision(run_command(run)) : run \in DescribeStacksRuns}
DeleteAnswers == {run_command(run).ok : run \in DeleteStackRuns}
StatusAnswers ==
    {[decision |-> PollDecision(run_command(run)), told |-> PollTold(run_command(run))] :
        run \in StatusRuns}
HeadAnswers == {HeadDecision(run_command(run)) : run \in HeadBucketRuns}
RmAnswers ==
    {[emptied |-> Emptied(run_command(run)), res |-> run_command(run)] :
        run \in RmRuns}
RbAnswers ==
    {[deleted |-> BucketDeleted(run_command(run)), res |-> run_command(run)] :
        run \in RbRuns}

Hear(kind, res) ==
    heard' = IF watch = Bucket THEN [heard EXCEPT ![kind] = res] ELSE heard

ObservePoll(r, answer, slept) ==
    /\ told' = IF watch = r THEN told \cup {answer} ELSE told
    /\ waited' = IF watch = r THEN waited + slept ELSE waited

----------------------------------------------------------------------------
(* The backend's stacks.                                                   *)

\* The answer of the backend to a status query of stack r. An answer that
\* keeps the poll loop going is given at most MaxBusy times to a stack, and
\* without limit to one stack at a time, the slow stack.
BackendAnswers(r, decision) ==
    IF decision # "checking" THEN slow' = slow
    ELSE IF elapsed_time[r] < MaxBusy * wait_interval THEN slow' = slow
    ELSE slow \in {"none", r} /\ slow' = r

\* A resource is free, and answers every call with any of the samples, or it
\* is bound to fixed answers: one to its existence check, one to its delete
\* command, and for a stack MaxBusy non-terminal answers to the status
\* queries followed by answers of one decision. A resource that is to be
\* bound gets its answers when its deletion task is started.
Free == [how |-> "free", exists |-> "present", delete |-> TRUE, final |-> "deleted"]
Unbound == [how |-> "unbound", exists |-> "present", delete |-> TRUE, final |-> "deleted"]

Bound(exists, delete, final) ==
    [how |-> "bound", exists |-> exists, delete |-> delete, final |-> final]

StackFates ==
    {Bound(e, d, a.decision) : e \in DescribeAnswers, d \in DeleteAnswers,
                               a \in StatusAnswers}
    \ {f \in [how : {"bound"}, exists : DescribeAnswers, delete : DeleteAnswers,
               final : {"deleted", "failed", "checking"}] :
            \/ f.exists # "present" /\ ~(f.delete /\ f.final = "deleted")
            \/ ~f.delete /\ f.final # "deleted"}

BucketFates == {Bound(e, a.deleted, "deleted") : e \in HeadAnswers, a \in RbAnswers}

FatesOf(r) ==
    IF fate[r].how # "unbound" THEN {fate[r]}
    ELSE IF r = Bucket THEN BucketFates ELSE StackFates

ExistsAnswersOf(r) ==
    IF fate[r].how = "bound" THEN {fate[r].exists}
    ELSE IF r = Bucket THEN HeadAnswers ELSE DescribeAnswers

DeleteAnswersOf(r) ==
    IF fate[r].how = "bound" THEN {fate[r].delete}
    ELSE IF r = Bucket THEN {a.deleted : a \in RbAnswers} ELSE DeleteAnswers

StatusAnswersOf(r) ==
    IF fate[r].how # "bound" THEN StatusAnswers
    ELSE {a \in StatusAnswers :
            a.decision = IF elapsed_time[r] < MaxBusy * wait_interval
                         THEN "checking" ELSE fate[r].final}

\* The process starts: main() is entered, .a2a.config is there or not.
Init ==
    /\ InitProgram
    /\ ClassifyAtRest /\ PrintAtRest /\ ExecutorAtRest
    /\ configFile \in {"missing", "empty", "valid"}
    /\ mpc = "main"
    /\ use_parallel = FALSE
    /\ confirm = <<>>
    /\ gate = "none"
    /\ tpc = [r \in Resources |-> "idle"]
    /\ fate = [r \in Resources |-> Free]
    /\ watch = "none"

----------------------------------------------------------------------------
(* main                                                                    *)

Exit(code, why) ==
    /\ exit_code' = code
    /\ mpc' = "exited"
    /\ ending' = IF ending = "none" THEN why ELSE ending

taskVars == <<tpc, result, elapsed_time, slow, fate, touched, obsVars>>

Prompts == {"ask_proceed", "ask_parallel", "ask_confirm"}

\* Lines printed about outcomes, <<where, what, subject>>.

\* run_cleanup: print_error("Failed to delete <step>") after a failed step
StepFailed(r) == <<"step", "failed", StepName(r)>>

\* delete_agent_stacks_parallel: the line printed for a collected future
StackLine(s, success) ==
    <<"tier", IF success THEN "completed" ELSE "failed", StepName(s)>>

\* delete_agent_stacks_parallel: the lines printed after the pool is left,
\* and run_cleanup's line when the tier returned False
TierLines(d) ==
    IF AllValues(d)
    THEN {<<"tier", "all", "deleted successfully">>}
    ELSE {<<"tier", "all", "failed to delete">>}
         \cup {<<"tier", IF d[k] THEN "Success" ELSE "Failed", k>> : k \in DOMAIN d}
         \cup {<<"step", "failed", "agent stacks">>}

\* run_cleanup: the lines of the final summary
SummaryLines(success, configExists) ==
    IF success
    THEN {<<"summary", "header", "Cleanup Complete!">>,
          <<"summary", "success", "All resources have been deleted successfully!">>}
    ELSE {<<"summary", "header", "Cleanup Completed with Errors">>,
          <<"summary", "warning", "Some resources may not have been deleted">>}
         \cup (IF configExists
               THEN {<<"summary", "info", ".a2a.config was not deleted">>}
               ELSE {})

\* variant: only a missing file counts as no configuration
main_load_config_exists ==
    /\ mpc = "main"
    /\ IF configFile # "missing"
       THEN mpc' = "ask_proceed" /\ UNCHANGED <<exit_code, ending>>
       ELSE Exit(1, "no_config")
    /\ UNCHANGED <<configFile, line, use_parallel, confirm, all_success,
                   returned, results, gate, printed, taskVars>>

\* main: load_config and the check of its result
main_load_config ==
    /\ mpc = "main"
    /\ IF configFile = "valid"
       THEN mpc' = "ask_proceed" /\ UNCHANGED <<exit_code, ending>>
       ELSE Exit(1, "no_config")
    /\ UNCHANGED <<configFile, line, use_parallel, confirm, all_success,
                   returned, results, gate, printed, taskVars>>

\* get_input: input() returns the line the user typed
get_input_read ==
    /\ mpc \in Prompts
    /\ line = NoLine
    /\ line' \in TypedLines
    /\ UNCHANGED <<configFile, mpc, exit_code, use_parallel, confirm,
                   all_success, returned, results, gate, ending, printed, taskVars>>

\* get_input: input() raises EOFError; main's "except Exception" exits 1
get_input_eof ==
    /\ mpc \in Prompts
    /\ line = NoLine
    /\ Exit(1, "eof")
    /\ UNCHANGED <<configFile, line, use_parallel, confirm, all_success,
                   returned, results, gate, printed, taskVars>>

\* main: "Do you want to proceed with cleanup?" (default no)
main_ask_proceed ==
    /\ mpc = "ask_proceed"
    /\ line # NoLine
    /\ IF IsYes(get_input(line, sNo, TRUE))
       THEN mpc' = "ask_parallel" /\ UNCHANGED <<exit_code, ending>>
       ELSE Exit(0, "declined")
    /\ line' = NoLine
    /\ UNCHANGED <<configFile, use_parallel, confirm, all_success, returned,
                   results, gate, printed, taskVars>>

\* main: "Use parallel deletion for faster execution?" (default yes)
main_ask_parallel ==
    /\ mpc = "ask_parallel"
    /\ line # NoLine
    /\ use_parallel' = IsYes(get_input(line, sYes, TRUE))
    /\ mpc' = "ask_confirm"
    /\ line' = NoLine
    /\ UNCHANGED <<configFile, exit_code, confirm, all_success, returned,
                   results, gate, ending, printed, taskVars>>

\* run_cleanup: the confirmation gate; get_input asks again on an empty line
run_cleanup_confirm ==
    /\ mpc = "ask_confirm"
    /\ line # NoLine
    /\ LET answer == get_input(line, <<>>, TRUE) IN
       IF answer = Again
       THEN UNCHANGED <<mpc, confirm, gate, returned>>
       ELSE /\ confirm' = answer
            /\ IF Confirmed(answer)
               THEN /\ gate' = "passed"
                    /\ returned' = returned
                    /\ mpc' = IF use_parallel THEN "agents_parallel"
                              ELSE "host_agent"
               ELSE /\ gate' = "cancelled"
                    /\ returned' = "False"
                    /\ mpc' = "returned"
    /\ line' = NoLine
    /\ all_success' = TRUE
    /\ UNCHANGED <<configFile, exit_code, use_parallel, results, ending,
                   printed, taskVars>>

\* run_cleanup, sequential steps: the call of the deletion task of r
run_cleanup_call(r) ==
    /\ mpc = r
    /\ tpc[r] = "idle"
    /\ tpc' = [tpc EXCEPT ![r] = IF r = Bucket THEN "head" ELSE "exists"]
    /\ \E f \in FatesOf(r) : fate' = [fate EXCEPT ![r] = f]
    /\ UNCHANGED <<progVars, result, elapsed_time, slow, touched, obsVars>>

\* variant: all_success is the result of the last step
run_cleanup_step_last(r) ==
    /\ mpc = r
    /\ tpc[r] = "done"
    /\ all_success' = result[r]
    /\ mpc' = StepAfter(r)
    /\ printed' = IF result[r] THEN printed ELSE printed \cup {StepFailed(r)}
    /\ UNCHANGED <<configFile, exit_code, line, use_parallel, confirm,
                   returned, results, gate, ending, taskVars>>

\* variant: a failed step ends the sequence of steps
run_cleanup_step_stop(r) ==
    /\ mpc = r
    /\ tpc[r] = "done"
    /\ all_success' = (all_success /\ result[r])
    /\ mpc' = IF result[r] THEN StepAfter(r) ELSE "summary"
    /\ printed' = IF result[r] THEN printed ELSE printed \cup {StepFailed(r)}
    /\ UNCHANGED <<configFile, exit_code, line, use_parallel, confirm,
                   returned, results, gate, ending, taskVars>>

\* run_cleanup, sequential steps: "if not <task>: all_success = False"
run_cleanup_step(r) ==
    /\ mpc = r
    /\ tpc[r] = "done"
    /\ all_success' = (all_success /\ result[r])
    /\ mpc' = StepAfter(r)
    /\ printed' = IF result[r] THEN printed ELSE printed \cup {StepFailed(r)}
    /\ UNCHANGED <<configFile, exit_code, line, use_parallel, confirm,
                   returned, results, gate, ending, taskVars>>

\* run_cleanup: config_path.unlink() when the file exists; a failing unlink
\* is caught and leaves the file
run_cleanup_unlink ==
    /\ mpc = "unlink"
    /\ \E unlinked \in BOOLEAN :
          configFile' = IF configFile # "missing" /\ unlinked THEN "missing"
                        ELSE configFile
    /\ mpc' = "summary"
    /\ UNCHANGED <<exit_code, line, use_parallel, confirm, all_success,
                   returned, results, gate, ending, printed, taskVars>>

\* variant: the summary of a run without errors, whatever happened
run_cleanup_return_complete ==
    /\ mpc = "summary"
    /\ returned' = IF all_success THEN "True" ELSE "False"
    /\ mpc' = "returned"
    /\ printed' = printed \cup SummaryLines(TRUE, configFile # "missing")
    /\ UNCHANGED <<configFile, exit_code, line, use_parallel, confirm,
                   all_success, results, gate, ending, taskVars>>

\* run_cleanup: the summary and "return all_success"
run_cleanup_return ==
    /\ mpc = "summary"
    /\ returned' = IF all_success THEN "True" ELSE "False"
    /\ mpc' = "returned"
    /\ printed' = printed \cup SummaryLines(all_success, configFile # "missing")
    /\ UNCHANGED <<configFile, exit_code, line, use_parallel, confirm,
                   all_success, results, gate, ending, taskVars>>

\* main: sys.exit(0) if run_cleanup(...) else sys.exit(1)
main_exit ==
    /\ mpc = "returned"
    /\ Exit(IF returned = "True" THEN 0 ELSE 1, "run_cleanup")
    /\ UNCHANGED <<configFile, line, use_parallel, confirm, all_success,
                   returned, results, gate, printed, taskVars>>

----------------------------------------------------------------------------
(* delete_agent_stacks_parallel                                            *)

AgentStepNames == {StepName(s) : s \in AgentStacks}

\* executor.submit of the three tasks: three workers start delete_stack_parallel
parallel_submit ==
    /\ mpc = "agents_parallel"
    /\ tpc' = [r \in Resources |-> IF r \in AgentStacks THEN "exists" ELSE tpc[r]]
    /\ results' = <<>>
    /\ mpc' = "as_completed"
    /\ \E fh \in FatesOf("host_agent"), fw \in FatesOf("web_search_agent"),
          fm \in FatesOf("monitoring_agent") :
          fate' = [fate EXCEPT !["host_agent"] = fh, !["web_search_agent"] = fw,
                               !["monitoring_agent"] = fm]
    /\ UNCHANGED <<configFile, exit_code, line, use_parallel, confirm,
                   all_success, returned, gate, ending, printed, result,
                   elapsed_time, slow, touched, obsVars>>

\* variant: a finished future is recorded as a success whatever it returned
parallel_collect_done(s) ==
    /\ mpc = "as_completed"
    /\ tpc[s] = "done"
    /\ StepName(s) \notin DOMAIN results
    /\ results' = (StepName(s) :> TRUE) @@ results
    /\ printed' = printed \cup {StackLine(s, result[s])}
    /\ UNCHANGED <<configFile, mpc, exit_code, line, use_parallel, confirm,
                   all_success, returned, gate, ending, taskVars>>

\* variant: results is made anew for each finished future
parallel_collect_fresh(s) ==
    /\ mpc = "as_completed"
    /\ tpc[s] = "done"
    /\ StepName(s) \notin DOMAIN results
    /\ results' = (StepName(s) :> result[s])
    /\ printed' = printed \cup {StackLine(s, result[s])}
    /\ UNCHANGED <<configFile, mpc, exit_code, line, use_parallel, confirm,
                   all_success, returned, gate, ending, taskVars>>

\* as_completed yields the finished future of s: results[name] = success
parallel_collect(s) ==
    /\ mpc = "as_completed"
    /\ tpc[s] = "done"
    /\ StepName(s) \notin DOMAIN results
    /\ results' = (StepName(s) :> result[s]) @@ results
    /\ printed' = printed \cup {StackLine(s, result[s])}
    /\ UNCHANGED <<configFile, mpc, exit_code, line, use_parallel, confirm,
                   all_success, returned, gate, ending, taskVars>>

\* variant: the tier is over with the first finished future
TierOverEarly == DOMAIN results # {}

\* as_completed is exhausted and the executor has shut down its workers
TierOver ==
    /\ DOMAIN results = AgentStepNames
    /\ \A s \in AgentStacks : tpc[s] = "done"

\* "return all_success" of the tier and run_cleanup's
\* "if not delete_agent_stacks_parallel(...): all_success = False"
parallel_return ==
    /\ mpc = "as_completed"
    /\ TierOver
    /\ all_success' = (all_success /\ AllValues(results))
    /\ mpc' = "cognito"
    /\ printed' = printed \cup TierLines(results)
    /\ UNCHANGED <<configFile, exit_code, line, use_parallel, confirm,
                   returned, results, gate, ending, taskVars>>

----------------------------------------------------------------------------
(* KeyboardInterrupt                                                       *)

\* Ctrl-C in the main thread. Inside the "with ThreadPoolExecutor" block the
\* executor first joins its workers (shutdown(wait=True)).
main_KeyboardInterrupt ==
    /\ mpc \notin {"exited", "unwinding"}
    /\ IF mpc = "as_completed"
       THEN mpc' = "unwinding" /\ exit_code' = exit_code /\ ending' = "interrupt"
       ELSE Exit(1, "interrupt")
    /\ UNCHANGED <<configFile, line, use_parallel, confirm, all_success,
                   returned, results, gate, printed, taskVars>>

\* the workers are joined, the interrupt reaches main: sys.exit(1)
main_unwound ==
    /\ mpc = "unwinding"
    /\ \A s \in AgentStacks : tpc[s] = "done"
    /\ Exit(1, "interrupt")
    /\ UNCHANGED <<configFile, line, use_parallel, confirm, all_success,
                   returned, results, gate, printed, taskVars>>

----------------------------------------------------------------------------
(* Deletion tasks                                                          *)

\* The thread that executes the task of r is running it: a pool worker for
\* an agent stack in parallel mode, otherwise the main thread at the step of r.
Alive(r) ==
    IF use_parallel /\ r \in AgentStacks
    THEN mpc \in {"as_completed", "unwinding"}
    ELSE mpc = r

\* "return value" of the task of r; the locals of its frame are gone
Return(r, value) ==
    /\ tpc' = [tpc EXCEPT ![r] = "done"]
    /\ result' = [result EXCEPT ![r] = value]
    /\ slow' = IF slow = r THEN "none" ELSE slow

\* variant: only a stack found absent keeps the delete command from being issued
delete_stack_exists_lenient(r) ==
    /\ Alive(r)
    /\ tpc[r] = "exists"
    /\ \E decision \in ExistsAnswersOf(r) :
          /\ IF decision = "absent"
             THEN Return(r, TRUE)
             ELSE /\ tpc' = [tpc EXCEPT ![r] = "delete"]
                  /\ UNCHANGED <<result, slow>>
          /\ ObserveExists(r, decision)
    /\ Touch(r) /\ ObserveCall(r, "exists")
    /\ UNCHANGED <<progVars, elapsed_time, fate, raised, restVars, told, waited, heard>>

\* delete_stack: the existence check (describe-stacks)
delete_stack_exists(r) ==
    /\ Alive(r)
    /\ tpc[r] = "exists"
    /\ \E decision \in ExistsAnswersOf(r) :
          /\ IF decision # "present"
             THEN Return(r, decision = "absent")
             ELSE /\ tpc' = [tpc EXCEPT ![r] = "delete"]
                  /\ UNCHANGED <<result, slow>>
          /\ ObserveExists(r, decision)
    /\ Touch(r) /\ ObserveCall(r, "exists")
    /\ UNCHANGED <<progVars, elapsed_time, fate, raised, restVars, told, waited, heard>>

\* delete_stack: the delete command (delete-stack); on success the task
\* enters wait_for_stack_deletion with elapsed_time = 0
delete_stack_delete(r) ==
    /\ Alive(r)
    /\ tpc[r] = "delete"
    /\ \E success \in DeleteAnswersOf(r) :
          IF success
          THEN /\ tpc' = [tpc EXCEPT ![r] = "poll"]
               /\ UNCHANGED <<result, slow>>
          ELSE Return(r, FALSE)
    /\ elapsed_time' = [elapsed_time EXCEPT ![r] = 0]
    /\ Touch(r) /\ ObserveCall(r, "delete")
    /\ UNCHANGED <<progVars, fate, raised, restVars, existCheck, told, waited, heard>>

\* wait_for_stack_deletion: one iteration of the while loop: the status
\* query and its decision, and unless the function returns,
\* time.sleep(wait_interval), elapsed_time += wait_interval and the loop
\* test; the loop left by the test is the timeout (return False)
wait_for_stack_deletion_poll(r) ==
    /\ Alive(r)
    /\ tpc[r] = "poll"
    /\ \E answer \in StatusAnswersOf(r) :
          LET decision == answer.decision
              elapsed == elapsed_time[r] + wait_interval IN
          /\ BackendAnswers(r, decision)
          /\ IF decision # "checking"
             THEN /\ tpc' = [tpc EXCEPT ![r] = "done"]
                  /\ result' = [result EXCEPT ![r] = (decision = "deleted")]
                  /\ elapsed_time' = [elapsed_time EXCEPT ![r] = 0]
                  /\ ObservePoll(r, answer.told, 0)
             ELSE IF KeepWaiting(elapsed)
             THEN /\ elapsed_time' = [elapsed_time EXCEPT ![r] = elapsed]
                  /\ UNCHANGED <<tpc, result>>
                  /\ ObservePoll(r, answer.told, wait_interval)
             ELSE /\ tpc' = [tpc EXCEPT ![r] = "done"]
                  /\ result' = [result EXCEPT ![r] = FALSE]
                  /\ elapsed_time' = [elapsed_time EXCEPT ![r] = 0]
                  /\ ObservePoll(r, answer.told, wait_interval)
    /\ Touch(r) /\ ObserveCall(r, "status")
    /\ UNCHANGED <<progVars, fate, raised, restVars, existCheck, heard>>

\* empty_s3_bucket: the existence check (head-bucket). It returns True
\* (absent) or False (error) without emptying when the check fails, and
\* cleanup_s3_bucket goes on to delete_s3_bucket whatever it returns.
empty_s3_bucket_head ==
    /\ Alive(Bucket)
    /\ tpc[Bucket] = "head"
    /\ \E decision \in ExistsAnswersOf(Bucket) :
          /\ tpc' = [tpc EXCEPT ![Bucket] = IF decision = "present" THEN "rm"
                                            ELSE "rb"]
          /\ ObserveExists(Bucket, decision)
    /\ Touch(Bucket) /\ ObserveCall(Bucket, "exists")
    /\ UNCHANGED <<progVars, result, elapsed_time, slow, fate, raised, restVars, told, waited,
                   heard>>

\* variant: a failed rm ends the bucket task with failure
empty_s3_bucket_rm_stops ==
    /\ Alive(Bucket)
    /\ tpc[Bucket] = "rm"
    /\ \E answer \in RmAnswers :
          /\ IF answer.res.ok
             THEN tpc' = [tpc EXCEPT ![Bucket] = "rb"] /\ UNCHANGED result
             ELSE /\ tpc' = [tpc EXCEPT ![Bucket] = "done"]
                  /\ result' = [result EXCEPT ![Bucket] = FALSE]
          /\ Hear("empty", answer.res)
    /\ Touch(Bucket) /\ ObserveCall(Bucket, "empty")
    /\ UNCHANGED <<progVars, elapsed_time, slow, fate, raised, restVars,
                   existCheck, told, waited>>

\* empty_s3_bucket: "aws s3 rm --recursive"; it returns True whatever the
\* command answers
empty_s3_bucket_rm ==
    /\ Alive(Bucket)
    /\ tpc[Bucket] = "rm"
    /\ \E answer \in RmAnswers :
          /\ answer.emptied \in BOOLEAN
          /\ Hear("empty", answer.res)
    /\ tpc' = [tpc EXCEPT ![Bucket] = "rb"]
    /\ Touch(Bucket) /\ ObserveCall(Bucket, "empty")
    /\ UNCHANGED <<progVars, result, elapsed_time, slow, fate, raised, restVars,
                   existCheck, told, waited>>

\* delete_s3_bucket: "aws s3 rb", whose result cleanup_s3_bucket returns
delete_s3_bucket ==
    /\ Alive(Bucket)
    /\ tpc[Bucket] = "rb"
    /\ \E answer \in RbAnswers :
          /\ answer.deleted \in DeleteAnswersOf(Bucket)
          /\ Return(Bucket, answer.deleted)
          /\ Hear("delete", answer.res)
    /\ Touch(Bucket) /\ ObserveCall(Bucket, "delete")
    /\ UNCHANGED <<progVars, elapsed_time, fate, raised, restVars, existCheck, told,
                   waited>>

\* variant: no task has a handler of its own
task_raises_uncaught(r) ==
    /\ Alive(r)
    /\ tpc[r] \notin {"idle", "done", "raised"}
    /\ raised' = raised \cup {r}
    /\ elapsed_time' = [s \in Stacks |-> IF s = r THEN 0 ELSE elapsed_time[s]]
    /\ tpc' = [tpc EXCEPT ![r] = "raised"]
    /\ slow' = IF slow = r THEN "none" ELSE slow
    /\ Exit(1, "exception")
    /\ UNCHANGED <<configFile, line, use_parallel, confirm, all_success,
                   returned, results, gate, printed, result, fate, touched,
                   restVars,
                   calls, existCheck, told, waited, heard>>

\* An exception is raised inside the running task of r, outside run_command
\* (which catches every exception of the command). delete_stack_parallel
\* catches it and returns (step_name, False); a task called by run_cleanup
\* itself has no handler up to main's "except Exception": sys.exit(1).
task_raises(r) ==
    /\ Alive(r)
    /\ tpc[r] \notin {"idle", "done", "raised"}
    /\ raised' = raised \cup {r}
    /\ elapsed_time' = [s \in Stacks |-> IF s = r THEN 0 ELSE elapsed_time[s]]
    /\ IF use_parallel /\ r \in AgentStacks
       THEN /\ Return(r, FALSE)
            /\ UNCHANGED <<mpc, exit_code, ending>>
       ELSE /\ tpc' = [tpc EXCEPT ![r] = "raised"]
            /\ slow' = IF slow = r THEN "none" ELSE slow
            /\ Exit(1, "exception")
            /\ UNCHANGED result
    /\ UNCHANGED <<configFile, line, use_parallel, confirm, all_success,
                   returned, results, gate, printed, fate, touched, restVars, calls,
                   existCheck, told, waited, heard>>

----------------------------------------------------------------------------
Next ==
    \/ main_load_config
    \/ get_input_read
    \/ get_input_eof
    \/ main_ask_proceed
    \/ main_ask_parallel
    \/ run_cleanup_confirm
    \/ \E r \in Resources : run_cleanup_call(r)
    \/ \E r \in Resources : run_cleanup_step(r)
    \/ parallel_submit
    \/ \E s \in AgentStacks : parallel_collect(s)
    \/ parallel_return
    \/ run_cleanup_unlink
    \/ run_cleanup_return
    \/ main_exit
    \/ main_KeyboardInterrupt
    \/ main_unwound
    \/ \E r \in Stacks : delete_stack_exists(r)
    \/ \E r \in Stacks : delete_stack_delete(r)
    \/ \E r \in Stacks : wait_for_stack_deletion_poll(r)
    \/ empty_s3_bucket_head
    \/ empty_s3_bucket_rm
    \/ delete_s3_bucket

Spec == Init /\ [][Next]_vars

----------------------------------------------------------------------------
(* The whole program with tasks in which an exception may be raised.       *)

NextFaults ==
    \/ Next
    \/ \E r \in Resources : task_raises(r)

SpecFaults == Init /\ [][NextFaults]_vars

----------------------------------------------------------------------------
(* run_cleanup past its confirmation gate, in either mode, against a       *)
(* backend whose resources are bound to fixed answers.                     *)

InitModes ==
    /\ InitProgram
    /\ ClassifyAtRest /\ PrintAtRest /\ ExecutorAtRest
    /\ configFile = "valid"
    /\ use_parallel \in BOOLEAN
    /\ mpc = IF use_parallel THEN "agents_parallel" ELSE "host_agent"
    /\ confirm = sDELETE
    /\ gate = "passed"
    /\ tpc = [r \in Resources |-> "idle"]
    /\ fate = [r \in Resources |-> Unbound]
    /\ watch = "none"

NextModes ==
    \/ \E r \in Resources : run_cleanup_call(r)
    \/ \E r \in Resources : run_cleanup_step(r)
    \/ parallel_submit
    \/ \E s \in AgentStacks : parallel_collect(s)
    \/ parallel_return
    \/ run_cleanup_unlink
    \/ run_cleanup_return
    \/ \E r \in Stacks : delete_stack_exists(r)
    \/ \E r \in Stacks : delete_stack_delete(r)
    \/ \E r \in Stacks : wait_for_stack_deletion_poll(r)
    \/ empty_s3_bucket_head
    \/ empty_s3_bucket_rm
    \/ delete_s3_bucket

SpecModes == InitModes /\ [][NextModes]_vars

----------------------------------------------------------------------------
(* One deletion task on its own: delete_stack(r) or cleanup_s3_bucket has  *)
(* just been called for the observed resource.                             *)

InitTask ==
    /\ InitProgram
    /\ ClassifyAtRest /\ PrintAtRest /\ ExecutorAtRest
    /\ configFile = "valid"
    /\ fate = [r \in Resources |-> Free]
    /\ watch \in Resources
    /\ mpc = watch
    /\ use_parallel = FALSE
    /\ confirm = sDELETE
    /\ gate = "passed"
    /\ tpc = [r \in Resources |->
                IF r # watch THEN "idle"
                ELSE IF r = Bucket THEN "head" ELSE "exists"]

NextTask ==
    \/ \E r \in Stacks : delete_stack_exists(r)
    \/ \E r \in Stacks : delete_stack_delete(r)
    \/ \E r \in Stacks : wait_for_stack_deletion_poll(r)
    \/ empty_s3_bucket_head
    \/ empty_s3_bucket_rm
    \/ delete_s3_bucket

SpecTask == InitTask /\ [][NextTask]_vars

\* The task keeps running: its thread is scheduled until it returns
\* (run_command gives up on a command after 30 s, time.sleep returns).
SpecTaskLive == SpecTask /\ WF_vars(NextTask)

----------------------------------------------------------------------------
(* The teardown is not running: the state of main() before its first       *)
(* statement, kept by the steps of the other units.                        *)

cleanupVars == <<progVars, tpc, result, elapsed_time, slow, fate, touched, watch,
                 calls, existCheck, told, waited, heard, raised>>

CleanupAtRest ==
    /\ InitProgram
    /\ configFile = "valid"
    /\ mpc = "main"
    /\ use_parallel = FALSE
    /\ confirm = <<>>
    /\ gate = "none"
    /\ tpc = [r \in Resources |-> "idle"]
    /\ fate = [r \in Resources |-> Free]
    /\ watch = "none"

----------------------------------------------------------------------------
(* The two absence checks on the text of a failed query: the one of        *)
(* delete_stack and the one of wait_for_stack_deletion, on the same text.  *)

\* str.upper(), to write the samples
Upper(s) ==
    [i \in 1..Len(s) |->
        IF \E k \in 1..26 : LowerLetters[k] = s[i]
        THEN UpperLetters[CHOOSE k \in 1..26 : LowerLetters[k] = s[i]]
        ELSE s[i]]

\* Sample texts of a failed query: what precedes, the gist, what follows.
MessageHeads == {<<>>, <<" ">>, <<"E","r","r","o","r",":"," ">>}
MessageGists ==
    LET markers == {sDoesNotExist, sStackWithId, sValidationError}
    IN  markers
        \cup {Upper(m) : m \in markers}
        \cup {SubSeq(m, 1, Len(m) - 1) : m \in markers}
        \cup {oGone, oValidation, oDenied, oNotExistUpper, sTimedOut,
              <<>>, <<"\t">>, <<" ", "\n">>}
MessageTails == {<<>>, <<"\n">>, <<".">>}
Messages ==
    {head \o gist \o tail :
        head \in MessageHeads, gist \in MessageGists, tail \in MessageTails}

InitClassify ==
    /\ CleanupAtRest /\ PrintAtRest /\ ExecutorAtRest
    /\ message \in Messages
    /\ verdict = {}

\* delete_stack's "if not success" test of the markers on output
classify_delete_stack ==
    /\ "delete_stack" \notin verdict
    /\ verdict' = verdict \cup {"delete_stack"}
                          \cup (IF StackAbsent(message) THEN {"absent"} ELSE {})
    /\ UNCHANGED <<message, cleanupVars, printVars, execVars>>

\* wait_for_stack_deletion's "if not success" test of the markers on output
classify_wait_for_stack_deletion ==
    /\ "wait_for_stack_deletion" \notin verdict
    /\ verdict' = verdict \cup {"wait_for_stack_deletion"}
                          \cup (IF StackGone(message) THEN {"gone"} ELSE {})
    /\ UNCHANGED <<message, cleanupVars, printVars, execVars>>

NextClassify ==
    \/ classify_delete_stack
    \/ classify_wait_for_stack_deletion

SpecClassify == InitClassify /\ [][NextClassify]_vars

----------------------------------------------------------------------------
(* The console output of the parallel tier: delete_agent_stacks_parallel   *)
(* on the main thread, delete_stack_parallel on the workers of its pool,   *)
(* the print_* functions and print_lock. A thread is at a statement, named *)
(* by its line: a print_* call, a backend call, the sleep. Which branch a  *)
(* thread takes is left open here.                                         *)

\* variant: a pool of one worker
SingleWorker == Cardinality({"worker"})

\* ThreadPoolExecutor(max_workers=3)
max_workers == 3

Workers == AgentStacks

\* the print_* calls of a worker, in delete_stack_parallel, delete_stack and
\* wait_for_stack_deletion
WorkerPrints ==
    {"L205", "L229", "L232", "L236", "L250", "L253", "L133", "L166", "L172",
     "L181", "L184", "L185", "L188", "L193", "L325"}

\* run_command (describe-stacks, delete-stack, the status query) and time.sleep
WorkerWaits == {"describe", "delete", "status", "sleep"}

\* the print_* and print calls of delete_agent_stacks_parallel
MainPrints == {"L331", "L332", "L333", "L358", "L360", "L368", "L370", "L372", "L375"}

\* the statements that may follow a statement of a worker
WorkerSucc(at) ==
    CASE at = "queued" -> {"L205"}
      [] at = "L205" -> {"describe"}
      [] at = "describe" -> {"L229", "L232", "L236"}
      [] at = "L236" -> {"delete"}
      [] at = "delete" -> {"L250", "L253"}
      [] at = "L250" -> {"L133"}
      [] at = "L133" -> {"status"}
      [] at = "status" -> {"L166", "L172", "L181", "L184", "L188", "sleep"}
      [] at = "L184" -> {"L185"}
      [] at \in {"L172", "L188"} -> {"sleep"}
      [] at = "sleep" -> {"status", "L193"}
      [] at \in {"L229", "L232", "L253", "L166", "L181", "L185", "L193", "L325"}
            -> {"returned"}
      [] OTHER -> {}

\* the statements that may follow a statement of the main thread
MainSucc(at) ==
    CASE at = "enter" -> {"L331"}
      [] at = "L331" -> {"L332"}
      [] at = "L332" -> {"L333"}
      [] at = "L333" -> {"as_completed"}
      [] at \in {"L358", "L360"} -> {"as_completed"}
      [] at = "L368" -> {"L370", "L372"}
      [] at \in {"L370", "L372"} -> {"L375"}
      [] at = "L375" -> {"returned"}
      [] OTHER -> {}

\* the pool exists: between the entry of the "with ThreadPoolExecutor" block
\* and its exit
PoolOpen == cpc.at \in {"as_completed", "L358", "L360"}

\* the thread_safe argument delete_stack_parallel gives to delete_stack
thread_safe == TRUE

\* variant: only the calls that say thread_safe=True themselves take the lock
ThreadSafeLiteral(site) == site \in {"L205", "L325", "L358", "L360"}

\* the thread_safe argument of the print_* call at a statement
ThreadSafe(site) ==
    \/ site \in {"L205", "L325", "L358", "L360"}
    \/ site \in WorkerPrints /\ thread_safe

\* a print_* call is entered: "with print_lock" when thread_safe
EnterPrint(thread, site) ==
    IF ThreadSafe(site)
    THEN print_lock = "free" /\ print_lock' = thread
    ELSE UNCHANGED print_lock

\* print() has returned; the "with" block, if any, releases the lock
LeavePrint(thread) ==
    print_lock' = IF print_lock = thread THEN "free" ELSE print_lock

Running == {w \in Workers : wpc[w].at \notin {"queued", "returned"}}

InitPrint ==
    /\ CleanupAtRest /\ ClassifyAtRest /\ ExecutorAtRest
    /\ wpc = [w \in Workers |-> [at |-> "queued", inside |-> FALSE]]
    /\ cpc = [at |-> "enter", inside |-> FALSE]
    /\ print_lock = "free"
    /\ collected = {}

\* a worker goes on to its next statement; a queued task is picked up by a
\* free worker of the pool
worker_goes(w) ==
    /\ ~wpc[w].inside
    /\ wpc[w].at = "queued" => (PoolOpen /\ Cardinality(Running) < max_workers)
    /\ \E next \in WorkerSucc(wpc[w].at) :
          IF next \in WorkerPrints
          THEN /\ EnterPrint(w, next)
               /\ wpc' = [wpc EXCEPT ![w] = [at |-> next, inside |-> TRUE]]
          ELSE /\ wpc' = [wpc EXCEPT ![w] = [at |-> next, inside |-> FALSE]]
               /\ UNCHANGED print_lock
    /\ UNCHANGED <<cpc, collected, cleanupVars, classVars, execVars>>

\* an exception in a worker's task: the handler of delete_stack_parallel
worker_except(w) ==
    /\ ~wpc[w].inside
    /\ wpc[w].at \in WorkerWaits
    /\ EnterPrint(w, "L325")
    /\ wpc' = [wpc EXCEPT ![w] = [at |-> "L325", inside |-> TRUE]]
    /\ UNCHANGED <<cpc, collected, cleanupVars, classVars, execVars>>

\* print() returns in a worker
worker_printed(w) ==
    /\ wpc[w].inside
    /\ LeavePrint(w)
    /\ wpc' = [wpc EXCEPT ![w].inside = FALSE]
    /\ UNCHANGED <<cpc, collected, cleanupVars, classVars, execVars>>

\* the main thread goes on to its next statement
main_goes ==
    /\ ~cpc.inside
    /\ \E next \in MainSucc(cpc.at) :
          IF next \in MainPrints
          THEN /\ EnterPrint("main", next)
               /\ cpc' = [at |-> next, inside |-> TRUE]
          ELSE /\ cpc' = [at |-> next, inside |-> FALSE]
               /\ UNCHANGED print_lock
    /\ UNCHANGED <<wpc, collected, cleanupVars, classVars, execVars>>

\* as_completed yields the future of a returned worker: the main thread
\* reports it
as_completed_yields(w) ==
    /\ cpc = [at |-> "as_completed", inside |-> FALSE]
    /\ wpc[w].at = "returned" /\ ~wpc[w].inside
    /\ w \notin collected
    /\ collected' = collected \cup {w}
    /\ \E next \in {"L358", "L360"} :
          /\ EnterPrint("main", next)
          /\ cpc' = [at |-> next, inside |-> TRUE]
    /\ UNCHANGED <<wpc, cleanupVars, classVars, execVars>>

\* as_completed is exhausted and the "with" block is left: print()
pool_shutdown ==
    /\ cpc = [at |-> "as_completed", inside |-> FALSE]
    /\ collected = Workers
    /\ EnterPrint("main", "L368")
    /\ cpc' = [at |-> "L368", inside |-> TRUE]
    /\ UNCHANGED <<wpc, collected, cleanupVars, classVars, execVars>>

\* print() returns in the main thread
main_printed ==
    /\ cpc.inside
    /\ LeavePrint("main")
    /\ cpc' = [cpc EXCEPT !.inside = FALSE]
    /\ UNCHANGED <<wpc, collected, cleanupVars, classVars, execVars>>

NextPrint ==
    \/ \E w \in Workers : worker_goes(w)
    \/ \E w \in Workers : worker_except(w)
    \/ \E w \in Workers : worker_printed(w)
    \/ main_goes
    \/ \E w \in Workers : as_completed_yields(w)
    \/ pool_shutdown
    \/ main_printed

SpecPrint == InitPrint /\ [][NextPrint]_vars

----------------------------------------------------------------------------
(* MonitoringAgentExecutor (agent_executor.py): execute() and cancel() are *)
(* coroutines on one event loop. A coroutine runs alone from one await to  *)
(* the next, so a step is the code between two awaits; _get_agent has no   *)
(* await of its own that suspends it.                                      *)

TaskIds == {"t1", "t2"}

\* a request context: its task id, its three headers, whether it has a
\* current task and a user message
RequestContext(task, session, actor, token, headers, current, text) ==
    [task_id |-> task, session_id |-> session, actor_id |-> actor,
     workload_token |-> token, headers |-> headers, current_task |-> current,
     user_message |-> text]

Requests ==
    {RequestContext("t1", "s1", "a1", "w1", TRUE, FALSE, TRUE),
     RequestContext("t1", "s2", "a2", "w2", TRUE, TRUE, TRUE),
     RequestContext("t2", "s1", "a1", "w1", TRUE, FALSE, TRUE),
     RequestContext("t1", "s1", "a1", "w1", FALSE, FALSE, TRUE),
     RequestContext("t2", "s2", "a1", "w2", TRUE, TRUE, FALSE)}

\* execute() is suspended at one of its awaits
InProgress(x) == xpc[x] \in {"enqueue", "stream", "status", "artifact", "complete"}

\* self._active_tasks.get(task_id, False)
ActiveGet(t) == IF t \in DOMAIN active_tasks THEN active_tasks[t] ELSE FALSE

\* self._active_tasks.pop(task_id, None)
ActivePop(t) == [k \in DOMAIN active_tasks \ {t} |-> active_tasks[k]]

\* history: a call of the updater by execute()
Emit(x, kind) ==
    late' = IF x \in overtaken THEN late \cup {<<x, kind>>} ELSE late

InitExecutor ==
    /\ CleanupAtRest /\ ClassifyAtRest /\ PrintAtRest
    /\ memory_id \in BOOLEAN
    /\ agent = {}
    /\ active_tasks = <<>>
    /\ xpc = [x \in Calls |-> "idle"]
    /\ request \in [Calls -> Requests]
    /\ accumulated_text = [x \in Calls |-> FALSE]
    /\ overtaken = {}
    /\ late = {}
    /\ reached = <<>>

\* the MonitoringAgent made for a request
MonitoringAgent(req) ==
    [session_id |-> req.session_id, actor_id |-> req.actor_id,
     workload_token |-> req.workload_token]

\* variant: each request gets an agent of its own
GotAnew(req) == IF ~memory_id THEN {{}} ELSE {{MonitoringAgent(req)}, {}}

\* _get_agent's answers: the agent there is, or a new one; None stands
\* for the RuntimeError of the missing environment and for an exception of
\* MonitoringAgent.__init__ (it starts the gateway client and lists its tools)
Got(req) ==
    IF agent # {} THEN {agent}
    ELSE IF ~memory_id THEN {{}}
    ELSE {{MonitoringAgent(req)}, {}}

\* execute(), from "user_message = context.get_user_input()" to the first
\* await of the stream: the ServerError of a missing message and an
\* exception of _get_agent leave through "finally"
execute_try(x) ==
    LET req == request[x] IN
    IF ~req.user_message
    THEN /\ active_tasks' = ActivePop(req.task_id)
         /\ xpc' = [xpc EXCEPT ![x] = "raised"]
         /\ UNCHANGED <<agent, accumulated_text, reached>>
    ELSE /\ reached' = Append(reached, x)
         /\ \E got \in Got(req) :
              IF got = {}
              THEN /\ active_tasks' = ActivePop(req.task_id)
                   /\ xpc' = [xpc EXCEPT ![x] = "raised"]
                   /\ UNCHANGED <<agent, accumulated_text>>
              ELSE /\ agent' = got
                   /\ active_tasks' = (req.task_id :> TRUE) @@ active_tasks
                   /\ accumulated_text' = [accumulated_text EXCEPT ![x] = FALSE]
                   /\ xpc' = [xpc EXCEPT ![x] = "stream"]

\* execute() is called: the header checks, and "await enqueue_event(task)"
\* when the context has no current task
execute(x) ==
    /\ xpc[x] = "idle"
    /\ IF ~request[x].headers
       THEN /\ xpc' = [xpc EXCEPT ![x] = "raised"]
            /\ UNCHANGED <<agent, active_tasks, accumulated_text, reached>>
       ELSE IF ~request[x].current_task
       THEN /\ xpc' = [xpc EXCEPT ![x] = "enqueue"]
            /\ UNCHANGED <<agent, active_tasks, accumulated_text, reached>>
       ELSE execute_try(x)
    /\ UNCHANGED <<memory_id, request, overtaken, late,
                   cleanupVars, classVars, printVars>>

\* enqueue_event has returned
execute_enqueued(x) ==
    /\ xpc[x] = "enqueue"
    /\ execute_try(x)
    /\ UNCHANGED <<memory_id, request, overtaken, late,
                   cleanupVars, classVars, printVars>>

\* _execute_streaming: the stream yields an event: the cancellation check,
\* an error event, or content that is sent as a status update
stream_event(x) ==
    /\ xpc[x] = "stream"
    /\ \E event \in {"content", "error"} :
          IF ~ActiveGet(request[x].task_id)
          THEN /\ active_tasks' = ActivePop(request[x].task_id)
               /\ xpc' = [xpc EXCEPT ![x] = "returned"]
               /\ UNCHANGED <<accumulated_text, late>>
          ELSE IF event = "error"
          THEN /\ active_tasks' = ActivePop(request[x].task_id)
               /\ xpc' = [xpc EXCEPT ![x] = "raised"]
               /\ UNCHANGED <<accumulated_text, late>>
          ELSE /\ accumulated_text' = [accumulated_text EXCEPT ![x] = TRUE]
               /\ Emit(x, "status")
               /\ xpc' = [xpc EXCEPT ![x] = "status"]
               /\ UNCHANGED active_tasks
    /\ UNCHANGED <<memory_id, reached, agent, request, overtaken,
                   cleanupVars, classVars, printVars>>

\* update_status has returned: the loop asks the stream for its next event
status_sent(x) ==
    /\ xpc[x] = "status"
    /\ xpc' = [xpc EXCEPT ![x] = "stream"]
    /\ UNCHANGED <<memory_id, reached, agent, active_tasks, request, accumulated_text,
                   overtaken, late, cleanupVars, classVars, printVars>>

\* the stream is exhausted: the loop is left, the artifact is added when
\* there is text, else the task is completed
stream_ends(x) ==
    /\ xpc[x] = "stream"
    /\ IF accumulated_text[x]
       THEN Emit(x, "artifact") /\ xpc' = [xpc EXCEPT ![x] = "artifact"]
       ELSE Emit(x, "completed") /\ xpc' = [xpc EXCEPT ![x] = "complete"]
    /\ UNCHANGED <<memory_id, reached, agent, active_tasks, request, accumulated_text,
                   overtaken, cleanupVars, classVars, printVars>>

\* add_artifact has returned: "await updater.complete()"
artifact_added(x) ==
    /\ xpc[x] = "artifact"
    /\ Emit(x, "completed")
    /\ xpc' = [xpc EXCEPT ![x] = "complete"]
    /\ UNCHANGED <<memory_id, reached, agent, active_tasks, request, accumulated_text,
                   overtaken, cleanupVars, classVars, printVars>>

\* complete has returned: execute() returns through "finally"
execute_returns(x) ==
    /\ xpc[x] = "complete"
    /\ active_tasks' = ActivePop(request[x].task_id)
    /\ xpc' = [xpc EXCEPT ![x] = "returned"]
    /\ UNCHANGED <<memory_id, reached, agent, request, accumulated_text,
                   overtaken, late, cleanupVars, classVars, printVars>>

\* cancel() is called for a task id: the task is marked as cancelled
cancel(t) ==
    /\ active_tasks' = (t :> FALSE) @@ active_tasks
    /\ overtaken' = overtaken \cup {x \in Calls : InProgress(x) /\ request[x].task_id = t}
    /\ UNCHANGED <<memory_id, reached, agent, xpc, request, accumulated_text, late,
                   cleanupVars, classVars, printVars>>

NextExecutor ==
    \/ \E x \in Calls : execute(x)
    \/ \E x \in Calls : execute_enqueued(x)
    \/ \E x \in Calls : stream_event(x)
    \/ \E x \in Calls : status_sent(x)
    \/ \E x \in Calls : stream_ends(x)
    \/ \E x \in Calls : artifact_added(x)
    \/ \E x \in Calls : execute_returns(x)
    \/ \E t \in TaskIds : cancel(t)

SpecExecutor == InitExecutor /\ [][NextExecutor]_vars

----------------------------------------------------------------------------
(* Properties                                                              *)

\* C1: in either mode, no backend call is made for the Cognito stack before
\* the three agent-stack tasks have all reached a terminal outcome, and no
\* backend call is made for the bucket before the Cognito task has reached
\* a terminal outcome.
C1_TierOrder ==
    /\ touched["cognito"] => \A s \in AgentStacks : tpc[s] = "done"
    /\ touched[Bucket] => tpc["cognito"] = "done"

C1_Witness ==
    /\ use_parallel
    /\ touched[Bucket]
    /\ ~result["host_agent"]
    /\ result["web_search_agent"]

\* C2: .a2a.config is deleted only when every deletion task succeeded: when
\* run_cleanup returns from a confirmed run in which a task failed, the
\* file still exists.
C2_ConfigKeptOnFailure ==
    (gate = "passed" /\ returned # "none" /\ \E r \in Resources : ~result[r])
        => configFile # "missing"

\* C3 as stated: a confirmation line other than the exact literal DELETE
\* never lets run_cleanup past its confirmation gate.
C3_ExactLiteral ==
    [][(mpc = "ask_confirm" /\ line # NoLine /\ line # sDELETE)
            => gate' # "passed"]_vars

\* C3: a confirmation line that, stripped of surrounding whitespace, is not
\* empty and is not DELETE makes run_cleanup return False at once; a run
\* cancelled at the gate has made no backend call and has kept .a2a.config.
C3_Gate ==
    /\ [](gate = "cancelled" =>
            /\ \A r \in Resources : ~touched[r] /\ tpc[r] = "idle"
            /\ configFile = "valid"
            /\ returned = "False"
            /\ confirm # sDELETE)
    /\ [][(mpc = "ask_confirm" /\ line # NoLine /\ mpc' # "exited"
           /\ Strip(line) \notin {<<>>, sDELETE})
            => (gate' = "cancelled" /\ mpc' = "returned")]_vars

C3_Witness ==
    /\ gate = "cancelled"
    /\ confirm = lDeleteLower
    /\ mpc = "exited"

\* C4: in parallel mode the agent-stack tier does not return before all
\* three tasks were started and have reached a terminal outcome; it has then
\* recorded the outcome of each of them, and the run's result is false when
\* one of them failed.
C4_ParallelTier ==
    LET PastAgentTier ==
            /\ gate = "passed"
            /\ \/ mpc \in {"cognito", Bucket, "unlink", "summary", "returned"}
               \/ mpc = "exited" /\ ending = "run_cleanup"
    IN
    /\ (use_parallel /\ mpc \in {"as_completed", "unwinding"})
            => \A s \in AgentStacks : tpc[s] # "idle"
    /\ (use_parallel /\ PastAgentTier) =>
            /\ \A s \in AgentStacks :
                  /\ tpc[s] = "done"
                  /\ StepName(s) \in DOMAIN results
                  /\ results[StepName(s)] = result[s]
            /\ (\E s \in AgentStacks : ~result[s]) => ~all_success

C4_Witness ==
    /\ use_parallel
    /\ mpc = "cognito"
    /\ result["host_agent"]
    /\ result["web_search_agent"]
    /\ ~result["monitoring_agent"]
    /\ ~all_success

\* C5: in sequential mode, when a confirmed run_cleanup returns, each of the
\* five deletion tasks has been attempted and has ended, whichever of them
\* failed; and a step that has ended is followed by the next step.
C5_Sequential ==
    /\ [](( ~use_parallel /\ gate = "passed" /\ returned # "none")
            => \A r \in Resources : touched[r] /\ tpc[r] = "done")
    /\ [][(~use_parallel /\ mpc \in Resources /\ mpc' \notin {mpc, "exited"})
            => mpc' = StepAfter(mpc)]_vars

C5_Witness ==
    /\ ~use_parallel
    /\ returned = "False"
    /\ ~result["host_agent"]
    /\ ~result["cognito"]
    /\ touched[Bucket]
    /\ result[Bucket]

\* C6: a resource whose existence check reports absence has its deletion
\* task end with success.
C6_AbsentSucceeds ==
    (watch \in Resources /\ existCheck = "absent" /\ tpc[watch] = "done")
        => result[watch]

\* C7: the exit code is 0 when every deletion succeeded or when the user
\* declined the cleanup (at the proceed prompt or at the confirmation
\* gate), and 1 when a deletion failed, the configuration is missing or
\* the user interrupted.
C7_ExitCodes ==
    mpc = "exited" =>
        /\ ending = "declined" => exit_code = 0
        /\ (ending = "run_cleanup" /\ gate = "cancelled") => exit_code = 0
        /\ (ending = "run_cleanup" /\ gate = "passed"
                /\ \A r \in Resources : result[r]) => exit_code = 0
        /\ (ending = "run_cleanup" /\ gate = "passed"
                /\ \E r \in Resources : ~result[r]) => exit_code = 1
        /\ ending \in {"no_config", "interrupt"} => exit_code = 1

\* C8: with every resource bound to fixed answers, the outcome of each
\* deletion task is the same function of the answers of its resource in
\* sequential and in parallel mode, and so is the value run_cleanup returns.
C8_SameOutcomes ==
    LET Outcome(r) ==
            IF r = Bucket THEN fate[r].delete
            ELSE \/ fate[r].exists = "absent"
                 \/ /\ fate[r].exists = "present"
                    /\ fate[r].delete
                    /\ fate[r].final = "deleted"
    IN  /\ \A r \in Resources :
              tpc[r] = "done" => (fate[r].how = "bound" /\ result[r] = Outcome(r))
        /\ returned # "none" =>
              /\ \A r \in Resources : tpc[r] = "done"
              /\ (returned = "True") = (\A r \in Resources : Outcome(r))
        /\ (use_parallel /\ mpc \notin {"agents_parallel", "as_completed"}) =>
              \A s \in AgentStacks : results[StepName(s)] = Outcome(s)

C8_Witness ==
    /\ use_parallel
    /\ returned = "False"
    /\ result["host_agent"]
    /\ fate["web_search_agent"].final = "checking"
    /\ fate["monitoring_agent"].final = "failed"
    /\ result["cognito"]
    /\ result[Bucket]

\* C9: a successful status query answered DELETE_FAILED, at the first poll
\* or a later one, ends the task with failure at that poll: it is the last
\* status query of the stack and no wait interval follows it.
C9_FailedIsFinal ==
    /\ []((watch \in Stacks /\ "DELETE_FAILED" \in told) =>
            /\ tpc[watch] = "done"
            /\ ~result[watch]
            /\ waited = (calls["status"] - 1) * wait_interval)
    /\ [][(watch \in Stacks /\ "DELETE_FAILED" \in told)
            => (calls' = calls /\ waited' = waited)]_vars

C9_Witness ==
    /\ watch \in Stacks
    /\ "DELETE_FAILED" \in told
    /\ calls["status"] = 3
    /\ tpc[watch] = "done"

\* C10: a stack whose status queries all succeed with a non-terminal status
\* ends with failure at its 120th status query, when the waits of 15 have
\* added up to the deadline of 1800, not earlier and not later.
C10_Timeout ==
    (watch \in Stacks /\ told = {"other_status"}) =>
        /\ calls["status"] <= 120
        /\ calls["status"] * wait_interval <= max_wait_time
        /\ waited = calls["status"] * wait_interval
        /\ (tpc[watch] = "done") = (calls["status"] = 120)
        /\ tpc[watch] = "done" => (~result[watch] /\ waited = max_wait_time)

C10_Witness ==
    /\ watch \in Stacks
    /\ told = {"other_status"}
    /\ calls["status"] = 120
    /\ tpc[watch] = "done"
    /\ ~result[watch]

\* C11: a stack that exists, whose delete command succeeded and whose
\* first status query answers DELETE_COMPLETE ends with success at that
\* query: one status query, no wait interval, no timeout.
C11_CompleteAtFirstPoll ==
    /\ []((watch \in Stacks /\ told = {"DELETE_COMPLETE"}) =>
            /\ existCheck = "present"
            /\ calls = [k \in Kinds |-> IF k = "empty" THEN 0 ELSE 1]
            /\ tpc[watch] = "done"
            /\ result[watch]
            /\ waited = 0)
    /\ [][(watch \in Stacks /\ told = {"DELETE_COMPLETE"})
            => (calls' = calls /\ waited' = waited)]_vars

C11_Witness ==
    /\ watch = "cognito"
    /\ told = {"DELETE_COMPLETE"}
    /\ calls["status"] = 1
    /\ result["cognito"]

\* C12: when a confirmed run_cleanup returns, in either mode, the value it
\* returns is True exactly when each of the five deletion tasks has ended
\* with success.
C12_ReturnsConjunction ==
    (gate = "passed" /\ returned # "none") =>
        /\ \A r \in Resources : tpc[r] = "done"
        /\ (returned = "True") = (\A r \in Resources : result[r])
        /\ all_success = (\A r \in Resources : result[r])

C12_Witness ==
    /\ gate = "passed"
    /\ returned = "False"
    /\ ~result["host_agent"]
    /\ \A r \in Resources \ {"host_agent"} : result[r]

\* C16: a run cancelled at the confirmation gate ends with a returned value
\* and an exit status that differ from those of a run in which a deletion
\* failed (False and 1).
C16_CancelDistinct ==
    (mpc = "exited" /\ ending = "run_cleanup") =>
        /\ (gate = "passed" /\ \E r \in Resources : ~result[r])
                => <<returned, exit_code>> = <<"False", 1>>
        /\ gate = "cancelled" => <<returned, exit_code>> # <<"False", 1>>

\* C17: when .a2a.config is missing or loads as empty, main exits with
\* code 1 at once: no prompt was answered, the confirmation gate was not
\* reached and no backend call was made.
C17_NoConfig ==
    /\ [](ending = "no_config" =>
            /\ mpc = "exited"
            /\ exit_code = 1
            /\ configFile # "valid"
            /\ gate = "none"
            /\ line = NoLine
            /\ \A r \in Resources : ~touched[r] /\ tpc[r] = "idle")
    /\ [][(mpc = "main" /\ configFile # "valid")
            => (mpc' = "exited" /\ exit_code' = 1)]_vars
    /\ [][(mpc = "main" /\ configFile = "valid" /\ mpc' # "exited")
            => mpc' = "ask_proceed"]_vars

C17_Witness ==
    /\ ending = "no_config"
    /\ configFile = "empty"
    /\ exit_code = 1

\* C13: when the bucket exists and the rm command fails, whatever it
\* answers, the bucket task goes on to the rb command, and it ends with
\* the outcome of the rb command alone.
C13_EmptyFailureGoesOn ==
    (watch = Bucket /\ heard["empty"] # Unheard /\ ~heard["empty"].ok) =>
        /\ existCheck = "present"
        /\ calls["empty"] = 1
        /\ tpc[Bucket] \in {"rb", "done"}
        /\ (tpc[Bucket] = "rb") = (calls["delete"] = 0)
        /\ tpc[Bucket] = "done" =>
              /\ calls["delete"] = 1
              /\ heard["delete"] # Unheard
              /\ result[Bucket] = (\/ heard["delete"].ok
                                   \/ Contains(heard["delete"].out, sNoSuchBucket)
                                   \/ Contains(heard["delete"].out, sDoesNotExist))

C13_Witness ==
    /\ watch = Bucket
    /\ heard["empty"] = [ok |-> FALSE, out |-> oDenied]
    /\ heard["delete"] = [ok |-> TRUE, out |-> <<>>]
    /\ tpc[Bucket] = "done"
    /\ result[Bucket]

\* C18: when the existence check reports the bucket absent, the bucket
\* task has ended with success, and neither the rm nor the rb command is
\* issued.
C18_AbsentBucketSkipped ==
    (watch = Bucket /\ existCheck = "absent") =>
        /\ tpc[Bucket] = "done"
        /\ result[Bucket]
        /\ calls["empty"] = 0
        /\ calls["delete"] = 0

\* C19 as stated: a failing rb command yields success for the bucket task
\* exactly when its output matches an absence marker of the deletion tasks
\* (without regard to case "does not exist", "stack with id" or
\* "validationerror", or an empty output).
C19_StackMarkers ==
    (watch = Bucket /\ tpc[Bucket] = "done" /\ ~heard["delete"].ok) =>
        result[Bucket] = StackAbsent(heard["delete"].out)

\* C19: a failing rb command yields success for the bucket task exactly
\* when its output contains, in this very case, "NoSuchBucket" or
\* "does not exist"; a succeeding rb command yields success.
C19_BucketMarkers ==
    (watch = Bucket /\ tpc[Bucket] = "done") =>
        /\ heard["delete"] # Unheard
        /\ heard["delete"].ok => result[Bucket]
        /\ ~heard["delete"].ok =>
              result[Bucket] = (\/ Contains(heard["delete"].out, sNoSuchBucket)
                                \/ Contains(heard["delete"].out, sDoesNotExist))

C19_Witness ==
    /\ watch = Bucket
    /\ tpc[Bucket] = "done"
    /\ heard["delete"] = [ok |-> FALSE, out |-> oNoSuchBucket]
    /\ result[Bucket]

\* C14: in parallel mode an exception raised inside an agent-stack task
\* becomes the failed outcome of that task and of no other: the raise leaves
\* the sibling tasks and the main thread where they are, the tier returns
\* only with all three outcomes recorded, the run goes on to the Cognito
\* and bucket steps, and the value it returns is False.
C14_ParallelCatches ==
    /\ []((use_parallel /\ raised # {} /\ raised \subseteq AgentStacks) =>
            /\ \A s \in raised : tpc[s] = "done" /\ ~result[s]
            /\ ending # "exception"
            /\ mpc \in {"cognito", Bucket, "unlink", "summary", "returned"} =>
                  /\ ~all_success
                  /\ \A s \in AgentStacks :
                        /\ tpc[s] = "done"
                        /\ StepName(s) \in DOMAIN results
                        /\ results[StepName(s)] = result[s]
            /\ returned # "none" =>
                  /\ returned = "False"
                  /\ tpc["cognito"] = "done"
                  /\ tpc[Bucket] = "done")
    /\ [][\A s \in AgentStacks :
            (use_parallel /\ s \in raised' /\ s \notin raised) =>
                /\ mpc' = mpc
                /\ \A r \in Resources \ {s} :
                      tpc'[r] = tpc[r] /\ result'[r] = result[r]]_vars

C14_Witness ==
    /\ use_parallel
    /\ raised = {"host_agent"}
    /\ \A r \in Resources \ {"host_agent"} : touched[r] /\ result[r]
    /\ returned = "False"
    /\ exit_code = 1

\* C15: in either mode and for every task, an exception raised inside a
\* deletion task becomes the failed outcome of that task and never ends
\* the run.
C15_NeverRaises ==
    raised # {} =>
        /\ \A r \in raised : tpc[r] = "done" /\ ~result[r]
        /\ ending # "exception"

\* C20 as stated: when a confirmed run_cleanup returns, its final summary
\* has a line for each of the five deletion tasks.
C20_SummaryEnumerates ==
    (gate = "passed" /\ returned # "none") =>
        \A r \in Resources :
            \E l \in printed : l[1] = "summary" /\ l[3] = StepName(r)

\* C20: when a confirmed run_cleanup returns, in either mode, its final
\* summary states the verdict of the whole run and names no task; each
\* failed task has been reported before it by a line that names it, no
\* such line names a task that succeeded, and in parallel mode each agent
\* stack has its line of completion or failure.
C20_SummaryAndReports ==
    (gate = "passed" /\ returned # "none") =>
        /\ \A l \in printed : l[1] = "summary" => l[2] \in {"header", "success", "warning", "info"}
        /\ \A l \in printed : \A r \in Resources :
              l[1] = "summary" => l[3] # StepName(r)
        /\ (<<"summary", "header", "Cleanup Complete!">> \in printed)
              = (\A r \in Resources : result[r])
        /\ (<<"summary", "header", "Cleanup Completed with Errors">> \in printed)
              = (\E r \in Resources : ~result[r])
        /\ \A r \in Resources :
              IF use_parallel /\ r \in AgentStacks
              THEN /\ (<<"tier", "failed", StepName(r)>> \in printed) = ~result[r]
                   /\ (<<"tier", "completed", StepName(r)>> \in printed) = result[r]
                   /\ ~result[r] => <<"tier", "Failed", StepName(r)>> \in printed
              ELSE (<<"step", "failed", StepName(r)>> \in printed) = ~result[r]

C20_Witness ==
    /\ use_parallel
    /\ returned = "False"
    /\ ~result["host_agent"]
    /\ result["web_search_agent"]
    /\ ~result[Bucket]
    /\ <<"summary", "header", "Cleanup Completed with Errors">> \in printed
    /\ <<"tier", "Success", "Web Search Agent Stack">> \in printed

----------------------------------------------------------------------------
\* C21: the backend calls of a stack's deletion task follow the order
\* existence check, delete command, status queries: one existence check at
\* most, the delete command only after an existence check that found the
\* stack, a status query only after the delete command was issued with
\* success; a failed existence check that is no absence ends the task in
\* failure without a delete command, and a failed delete command ends it
\* in failure without a status query.
C21_ProtocolOrder ==
    /\ [](watch \in Stacks =>
            /\ calls["exists"] <= 1 /\ calls["delete"] <= 1
            /\ calls["delete"] = 1 => (calls["exists"] = 1 /\ existCheck = "present")
            /\ (calls["status"] > 0 \/ tpc[watch] = "poll") => calls["delete"] = 1
            /\ existCheck = "error" =>
                  /\ tpc[watch] = "done" /\ ~result[watch]
                  /\ calls["delete"] = 0 /\ calls["status"] = 0
            /\ (tpc[watch] = "done" /\ calls["delete"] = 1 /\ calls["status"] = 0)
                  => ~result[watch])
    /\ [][(watch \in Stacks) =>
            (/\ calls'["delete"] > calls["delete"] =>
                   (tpc[watch] = "delete" /\ tpc'[watch] \in {"poll", "done"})
             /\ calls'["status"] > calls["status"] => tpc[watch] = "poll"
             /\ (tpc[watch] = "delete" /\ tpc'[watch] = "done") =>
                   (~result'[watch] /\ calls'["status"] = 0))]_vars

C21_Witness ==
    /\ watch \in Stacks
    /\ existCheck = "present"
    /\ calls = [k \in Kinds |-> IF k = "empty" THEN 0 ELSE IF k = "status" THEN 2 ELSE 1]
    /\ tpc[watch] = "done"

\* C22: a failed status query whose text is not empty and holds no absence
\* marker keeps the poller checking and costs one wait interval like any
\* other non-terminal poll: a stack that answers with such errors (and
\* otherwise only non-terminal answers) is waited on for 15 per query and
\* ends, in failure, at its 120th status query and not before.
C22_ErrorKeepsChecking ==
    (/\ watch \in Stacks
     /\ "failed_other" \in told
     /\ told \subseteq {"failed_other", "other_status", "no_status"}) =>
        /\ calls["status"] <= 120
        /\ waited = calls["status"] * wait_interval
        /\ (tpc[watch] = "done") = (calls["status"] = 120)
        /\ tpc[watch] = "done" => (~result[watch] /\ waited = max_wait_time)

C22_Witness ==
    /\ watch \in Stacks
    /\ told = {"failed_other"}
    /\ calls["status"] = 120
    /\ tpc[watch] = "done"
    /\ ~result[watch]

C24_PollerTerminates ==
    /\ [](watch \in Stacks =>
            /\ calls["status"] <= 120
            /\ calls["status"] = 120 => tpc[watch] = "done"
            /\ (tpc[watch] = "done" /\ calls["status"] > 0) =>
                  LET deleted == told \cap {"DELETE_COMPLETE", "failed_absent",
                                            "failed_empty"} # {}
                      failed == "DELETE_FAILED" \in told
                      timedOut == waited = max_wait_time
                  IN  /\ deleted \/ failed \/ timedOut
                      /\ ~(deleted /\ failed) /\ ~(deleted /\ timedOut)
                      /\ ~(failed /\ timedOut)
                      /\ result[watch] = deleted)
    /\ [][(watch \in Stacks /\ tpc[watch] = "done") =>
            (calls' = calls /\ tpc'[watch] = "done" /\ result' = result)]_vars
    /\ (watch \in Stacks => <>(tpc[watch] = "done"))

C24_Witness ==
    /\ watch \in Stacks
    /\ told = {"other_status", "no_status", "failed_other"}
    /\ calls["status"] = 120
    /\ waited = max_wait_time
    /\ tpc[watch] = "done"

\* C27: in either mode a deletion task is started once and ends once with
\* one result that never changes; in parallel mode results gets one entry
\* per agent stack, the value its task returned, is written only by a step
\* of the collecting main thread, one entry at a time, and an entry once
\* written is neither changed nor removed.
C27_OneOutcomeEach ==
    /\ [](/\ DOMAIN results \subseteq AgentStepNames
          /\ \A s \in AgentStacks :
                StepName(s) \in DOMAIN results =>
                    (use_parallel /\ tpc[s] = "done" /\ results[StepName(s)] = result[s])
          /\ (gate = "passed" /\ returned # "none" /\ use_parallel)
                => DOMAIN results = AgentStepNames)
    /\ [][/\ \A r \in Resources :
               /\ tpc[r] # "idle" => tpc'[r] # "idle"
               /\ tpc[r] = "done" => (tpc'[r] = "done" /\ result'[r] = result[r])
          /\ \A k \in DOMAIN results :
               k \in DOMAIN results' /\ results'[k] = results[k]
          /\ results' # results =>
               /\ Cardinality(DOMAIN results') = Cardinality(DOMAIN results) + 1
               /\ mpc = "as_completed" /\ mpc' = "as_completed"
               /\ tpc' = tpc /\ result' = result]_vars

C27_Witness ==
    /\ use_parallel
    /\ returned # "none"
    /\ DOMAIN results = AgentStepNames
    /\ ~results["Host Agent Stack"]
    /\ results["Web Search Agent Stack"]

\* C28: in sequential mode the agent stacks are taken one at a time in
\* the order host agent, web search agent, monitoring agent: the task of a
\* later stack is not started, and no backend call is issued for it,
\* before the task of each earlier stack has ended.
C28_DeclaredOrder ==
    ~use_parallel =>
        \A pair \in {<<"host_agent", "web_search_agent">>,
                      <<"web_search_agent", "monitoring_agent">>,
                      <<"host_agent", "monitoring_agent">>} :
            (touched[pair[2]] \/ tpc[pair[2]] # "idle") => tpc[pair[1]] = "done"

C28_Witness ==
    /\ ~use_parallel
    /\ touched["monitoring_agent"]
    /\ tpc["monitoring_agent"] = "poll"
    /\ ~result["host_agent"]
    /\ result["web_search_agent"]

\* C29: on every text of a failed query the existence check of delete_stack
\* and the status poll of wait_for_stack_deletion decide alike whether the
\* stack is absent: both say so exactly when the lower-cased text contains
\* "does not exist", "stack with id" or "validationerror", or the text is
\* empty or made of whitespace only.
C29_SameClassification ==
    LET absent ==
            \/ \E marker \in {sDoesNotExist, sStackWithId, sValidationError} :
                  Contains(Lower(message), marker)
            \/ \A i \in 1..Len(message) : message[i] \in Whitespace
    IN  /\ "delete_stack" \in verdict => (("absent" \in verdict) = absent)
        /\ "wait_for_stack_deletion" \in verdict => (("gone" \in verdict) = absent)
        /\ {"delete_stack", "wait_for_stack_deletion"} \subseteq verdict
              => (("absent" \in verdict) = ("gone" \in verdict))

C29_Witness ==
    /\ message = <<"E","r","r","o","r",":"," ">> \o Upper(sStackWithId) \o <<".">>
    /\ verdict = {"delete_stack", "wait_for_stack_deletion", "absent", "gone"}

\* C25: while the pool of the parallel tier exists or one of its workers is
\* in its task, every thread that is inside a print holds print_lock, so
\* no two threads are inside a print at the same time.
C25_PrintsUnderLock ==
    LET inside == {w \in Workers : wpc[w].inside}
                    \cup (IF cpc.inside THEN {"main"} ELSE {})
    IN  (PoolOpen \/ Running # {}) =>
            /\ \A t \in inside : print_lock = t
            /\ Cardinality(inside) <= 1

C25_Witness ==
    /\ wpc["host_agent"] = [at |-> "L188", inside |-> TRUE]
    /\ print_lock = "host_agent"
    /\ wpc["web_search_agent"].at = "sleep"
    /\ cpc.at = "L358" /\ ~cpc.inside
    /\ collected = {"monitoring_agent"}

\* C26: a task in its poll loop does not hold back its siblings: the
\* lock is held only by a thread that is inside a print, never by one that
\* is in a backend call or in the wait interval, and while the pool exists
\* every task that has not returned can take its next step as soon as
\* print_lock is free: a queued task finds a free worker, whatever the
\* others are doing.
C26_NoTaskHeldBack ==
    /\ \A w \in Workers :
          /\ print_lock = w => (wpc[w].inside /\ wpc[w].at \in WorkerPrints)
          /\ wpc[w].at \in WorkerWaits => print_lock # w
    /\ print_lock = "main" => cpc.inside
    /\ \A w \in Workers :
          (PoolOpen /\ wpc[w].at # "returned" /\ (print_lock = "free" \/ wpc[w].inside))
              => ENABLED (worker_goes(w) \/ worker_printed(w))

C26_Witness ==
    /\ wpc["host_agent"] = [at |-> "sleep", inside |-> FALSE]
    /\ wpc["web_search_agent"] = [at |-> "returned", inside |-> FALSE]
    /\ wpc["monitoring_agent"] = [at |-> "status", inside |-> FALSE]
    /\ collected = {"web_search_agent"}
    /\ print_lock = "free"

\* C30: an execute() call that was in progress when cancel() marked its
\* task as cancelled sends no status update, adds no artifact and does not
\* complete the task from then on.
C30_SilentAfterCancel == late = {}

\* C31: _active_tasks holds an entry for a task id only while a call of
\* execute() for that task id is in progress; once execute() has returned
\* or raised, no entry for its task id is left.
C31_EntryOnlyWhileRunning ==
    \A t \in DOMAIN active_tasks :
        \E x \in Calls : InProgress(x) /\ request[x].task_id = t

\* C32 as stated: the agent of an executor is the one made for the first
\* request that reached _get_agent.
C32_BoundToFirstReached ==
    agent # {} => agent = {MonitoringAgent(request[reached[1]])}

\* C32: an executor has one agent at most: once made it is never replaced,
\* it is the one made for the first request whose call of _get_agent did
\* not raise (every call before it has raised), and every call that got
\* past _get_agent is served by it, whatever its own session and actor.
C32_OneAgentOnly ==
    /\ [](/\ Cardinality(agent) <= 1
          /\ agent # {} =>
                \E i \in 1..Len(reached) :
                    /\ agent = {MonitoringAgent(request[reached[i]])}
                    /\ \A j \in 1..(i - 1) : xpc[reached[j]] = "raised"
          /\ \A x \in Calls :
                xpc[x] \in {"stream", "status", "artifact", "complete", "returned"}
                    => agent # {})
    /\ [][agent # {} => agent' = agent]_vars

C32_Witness ==
    /\ Len(reached) = 2
    /\ agent = {MonitoringAgent(request[reached[1]])}
    /\ request[reached[2]].session_id # request[reached[1]].session_id
    /\ request[reached[2]].actor_id # request[reached[1]].actor_id
    /\ xpc[reached[2]] = "status"

====
